---- MODULE Spec2Model ----
(***************************************************************************)
(* Flight-safety coordination layer of the drone surveillance system:      *)
(* DroneController (drone_control/drone_controller.py), its monitor thread *)
(* and simulated-landing timers, and the DroneSystem control loop and      *)
(* shutdown (main.py).                                                      *)
(*                                                                         *)
(* Every thread of the program is a process with a program counter pc[t].  *)
(* A controller method is a sequence of labelled steps executed by the     *)
(* calling thread; ret[t] is its stack of return labels and rv[t] the      *)
(* value the last method returned.  A step that reads or writes shared     *)
(* fields is one atomic action; a call on the vehicle handle (dronekit)    *)
(* takes two steps: the call begins when the thread enters an InFlight     *)
(* label and completes when it leaves it.                                  *)
(***************************************************************************)
EXTENDS Integers, Sequences, FiniteSets, TLC

\* ---------------------------------------------------------------- threads
\* the monitor threads alive at once that the model allows
Monitors == {"m1"}
Callers == {"main", "ctl"}
Threads == Callers \cup Monitors

\* ------------------------------------------------------------- constants
\* None, and a value that is present
None == <<>>
Some(x) == <<x>>

\* the arguments of a method call: those the method does not take are None
NoArguments ==
    [mission_id |-> "none", altitude |-> None, location |-> [latitude |-> None]]

\* the locals a method passes to the vehicle: the altitude of a takeoff, the
\* latitude and altitude of a goto, the commands of a mission
NoTarget == [latitude |-> None, altitude |-> None, commands |-> <<>>]

\* DroneStatus enum
DroneStatus ==
    {"DISCONNECTED", "CONNECTED", "ARMED", "FLYING", "RETURNING", "LANDING", "ERROR"}

\* vehicle.mode.name values the controller sets or tests, and the mode of a
\* vehicle that was never commanded
Modes == {"STABILIZE", "GUIDED", "AUTO", "LAND", "RTL"}

\* config.get('critical_battery_level', 15)
critical_battery_level == 15

\* battery.level readings: one below the critical level, one above it (a
\* level between the critical and the low level only logs a warning)
BatteryLevels == {10, 75}

\* config['missions'] holds "patrol"; "unknown" is an id that is not in it
MissionTable == {"patrol"}
MissionIds == {"patrol", "unknown"}

\* config['missions']['patrol']['waypoints']: the second has no altitude of
\* its own and lies outside every boundary
missions ==
    [mission_id \in MissionTable |->
       <<[latitude |-> 0, altitude |-> Some(10)],
         [latitude |-> 24, altitude |-> None],
         [latitude |-> 9, altitude |-> Some(15)]>>]

\* pending threading.Timer objects the model allows at once
MaxTimers == 2

\* largest vehicle.commands.next the link reports
MaxWaypoint == 1

\* events the detector produces and commands ground control sends in a run
MaxEvents == 1
MaxCommands == 2

\* event['type'] values: the four handle_emergency knows, and another
EventKinds == {"fire", "break_in", "suspicious", "threat", "other"}

\* command['type'] values: the six handle_command knows, and another.
\* The communicator queues only messages that have a 'type', and checks no
\* other key: mission_id is "none" in a message without 'mission_id'
CommandKinds ==
    {"move", "return", "land", "takeoff", "mission", "shutdown", "other"}
Commands ==
    {[type |-> k, mission_id |-> "none"] : k \in CommandKinds \ {"mission"}}
    \cup {[type |-> "mission", mission_id |-> i] : i \in MissionIds \cup {"none"}}

\* a JSON object without the key 'type'
NoType == [type |-> "none", mission_id |-> "none"]

\* the messages a client sends: a JSON object that has a 'type' (data is
\* the command it makes), a JSON object without one, and text that is not
\* JSON
Messages ==
    {[json |-> TRUE, data |-> c] : c \in Commands}
    \cup {[json |-> TRUE, data |-> NoType], [json |-> FALSE, data |-> NoType]}

\* messages the clients send in a run
MaxMessages == 2

\* -------------------------------------------------------------- positions
\* A position is a latitude on the meridian through the geofence, counted in
\* units of 1/111111 degree (the length _meters_to_degrees gives one metre).
\* A circle boundary is centred on the meridian and a polygon boundary
\* spans it between a south and a north side, so that Shapely's contains,
\* nearest_points and distance on this line are those of intervals.
DegreeScale == 111111

\* DroneController: config.get('default_altitude', 10), ('max_altitude', 30)
default_altitude == 10
max_altitude == 30

\* GeofenceManager: config.get('max_altitude', 30), ('min_altitude', 2),
\* ('buffer_distance', 5)
geofence_max_altitude == 30
geofence_min_altitude == 2
buffer_distance == 5

\* config['emergency']
fire_inspection_altitude == 15
tracking_altitude == 10
investigation_altitude == 12
threat_observation_altitude == 20

\* a break-in answered at the altitude of an investigation
EmergencyAltitudeMixedUp(kind) ==
    CASE kind = "fire" -> fire_inspection_altitude
      [] kind = "break_in" -> investigation_altitude
      [] kind = "suspicious" -> investigation_altitude
      [] kind = "threat" -> threat_observation_altitude

\* main.py lines 126-137: the altitude handle_emergency passes for a kind
EmergencyAltitude(kind) ==
    CASE kind = "fire" -> fire_inspection_altitude
      [] kind = "break_in" -> tracking_altitude
      [] kind = "suspicious" -> investigation_altitude
      [] kind = "threat" -> threat_observation_altitude

\* boundary configurations (boundary_data): a circle wider than the buffer
\* distance, a circle narrower than it, a polygon that overlaps the first
\* circle, and a polygon with a buffer of its own
BoundaryData ==
    {[type |-> "circle", name |-> "main", center |-> 0, radius |-> 10],
     [type |-> "circle", name |-> "pad", center |-> 30, radius |-> 3],
     [type |-> "polygon", name |-> "yard", south |-> 8, north |-> 20, buffer |-> 0],
     [type |-> "polygon", name |-> "lot", south |-> 36, north |-> 40, buffer |-> 2]}

\* the boundaries a configuration holds at most
MaxBoundaries == 2

\* latitudes asked about: inside, outside and on the sides of the boundaries
Points == {-12, -10, 0, 9, 15, 20, 24, 27, 34, 45}

\* altitudes asked about: none, below the minimum, within, above the maximum
QueryAltitudes == {None, Some(0), Some(2), Some(20), Some(30), Some(31)}

\* takeoff(altitude): no altitude, zero, one below and one above the maximum
TakeoffAltitudes == {None, Some(0), Some(20), Some(40)}

\* move_to_coordinates(location, altitude): a location inside the geofence,
\* one outside it, and a dict without 'latitude'; no altitude or one above
\* the maximum
MoveLocations ==
    {[latitude |-> Some(0)], [latitude |-> Some(24)], [latitude |-> None]}
MoveAltitudes == {None, Some(40)}

\* vehicle.location.global_relative_frame.lat as the monitor reads it
VehiclePositions == {0, 24}

\* event['location']: what _calculate_location gives, and the {} of a
\* detection without a location
EventLocations == {[latitude |-> Some(0)], [latitude |-> None]}

VARIABLES
    simulation_mode,        \* DroneController.simulation_mode
    status,                 \* DroneController.status
    vehicle,                \* DroneController.vehicle is not None
    running,                \* DroneController.running
    monitoring_thread,      \* DroneController.monitoring_thread ("none" or a monitor)
    current_mission,        \* DroneController.current_mission ("none" or an id)
    current_waypoint_index, \* DroneController.current_waypoint_index
    pc,                     \* pc[t]: the label thread t is at
    ret,                    \* ret[t]: the labels the methods t is in return to, innermost first
    rv,                     \* rv[t]: the value the last method returned to t
    arg,                    \* arg[t]: the argument of the method t is in
    mode,                   \* vehicle.mode.name as the link reports it
    armed,                  \* vehicle.armed as the link reports it
    battery,                \* the battery.level the monitor read last
    timers,                 \* threading.Timer(_simulated_landing_complete) pending
    sys_running,            \* DroneSystem.running
    event_queue,            \* EmergencyDetector.event_queue
    command_queue,          \* Communicator.command_queue
    events,                 \* control_loop: the drained events not yet handled
    commands,               \* control_loop: the drained commands not yet handled
    n_events,               \* events the detector has produced so far
    n_commands,             \* commands ground control has sent so far
    sd_landed,              \* sd_landed[t]: shutdown() run by t has called land()
    target,                 \* target[t]: the locals of the method t is in that it passes to the vehicle
    boundaries,             \* GeofenceManager.boundaries
    gf_call,                \* the last call made on the GeofenceManager by its client
    gf_result,              \* the value that call returned
    comm_call,              \* the last message the communicator received from its client
    replies,                \* what the communicator has sent that client in reply, oldest first
    n_messages              \* messages the communicator has received so far

ctrlVars == <<simulation_mode, status, vehicle, running, monitoring_thread,
              current_mission, current_waypoint_index>>
thrVars == <<pc, ret, rv, arg, target>>
vehVars == <<mode, armed, battery>>
sysVars == <<sys_running, event_queue, command_queue, events, commands,
             n_events, n_commands, sd_landed>>
gfVars == <<boundaries, gf_call, gf_result>>
commVars == <<comm_call, replies, n_messages>>
vars == <<ctrlVars, thrVars, vehVars, timers, sysVars, gfVars, commVars>>

\* ------------------------------------------------------------- helpers
\* labels at which a thread is inside a call that mutates the vehicle
InFlight ==
    {"dc_closing", "tk_arm", "tk_takeoff", "ld_mode", "rt_mode", "mv_goto", "ms_upload"}

InCall(t) == pc[t] \in InFlight

\* thread t calls a controller method: jump to its entry label
Call(t, entry, back, a) ==
    /\ pc' = [pc EXCEPT ![t] = entry]
    /\ ret' = [ret EXCEPT ![t] = <<back>> \o @]
    /\ rv' = [rv EXCEPT ![t] = "none"]
    /\ arg' = [arg EXCEPT ![t] = a]
    /\ target' = [target EXCEPT ![t] = NoTarget]

\* the method thread t is in returns v
Return(t, v) ==
    /\ pc' = [pc EXCEPT ![t] = Head(ret[t])]
    /\ ret' = [ret EXCEPT ![t] = Tail(@)]
    /\ rv' = [rv EXCEPT ![t] = v]
    /\ arg' = [arg EXCEPT ![t] = NoArguments]
    /\ target' = [target EXCEPT ![t] = NoTarget]

\* thread t moves on to a label with v in the locals it passes on; the
\* value of a call it made before, which it did not keep, is gone
GotoWith(t, label, v) ==
    /\ pc' = [pc EXCEPT ![t] = label]
    /\ rv' = [rv EXCEPT ![t] = "none"]
    /\ target' = [target EXCEPT ![t] = v]
    /\ UNCHANGED <<ret, arg>>

\* thread t moves on to a label
Goto(t, label) == GotoWith(t, label, target[t])

\* a monitor thread object that is not alive, for threading.Thread(...).start()
FreeMonitors == {m \in DOMAIN pc \ Callers : pc[m] \in {"idle", "stopped"}}

\* a value a method returns for failure: False, or False after logging
\* "Arming timeout"
Failed(v) == v \in {"False", "ArmTimeout"}

\* ------------------------------------------------------- GeofenceManager
\* _meters_to_degrees, geofence_manager.py lines 151-170: meters / 111111.0
\* degrees, in the units of the positions
meters_to_degrees(meters) == (meters * DegreeScale) \div 111111

\* _add_boundary and _create_circular_boundary (lines 77-149): the boundary
\* appended for a configuration.  A circle is the buffer of its centre by
\* the radius in degrees; a polygon is grown by its own buffer, if it has one
Boundary(boundary_data) ==
    IF boundary_data.type = "circle"
      THEN LET radius_degrees == meters_to_degrees(boundary_data.radius) IN
           [type |-> "circle", name |-> boundary_data.name,
            south |-> boundary_data.center - radius_degrees,
            north |-> boundary_data.center + radius_degrees,
            center |-> boundary_data.center]
      ELSE LET buffer_degrees ==
                 IF boundary_data.buffer > 0
                   THEN meters_to_degrees(boundary_data.buffer) ELSE 0 IN
           [type |-> "polygon", name |-> boundary_data.name,
            south |-> boundary_data.south - buffer_degrees,
            north |-> boundary_data.north + buffer_degrees]

\* geometry.contains(point): the point is in the interior, not on the sides
contains(geometry, point) == geometry.south < point /\ point < geometry.north

\* nearest_points(point, geometry)[1]
nearest_point(geometry, point) ==
    IF point <= geometry.south THEN geometry.south
    ELSE IF point >= geometry.north THEN geometry.north
    ELSE point

\* point.distance(other)
distance(a, b) == IF a >= b THEN a - b ELSE b - a

\* lines 193-198, 214-216, 269-271: the loop that looks for a boundary that
\* contains the point
RECURSIVE InsideAny(_, _)
InsideAny(bs, point) ==
    IF bs = <<>> THEN FALSE
    ELSE IF contains(Head(bs), point) THEN TRUE
    ELSE InsideAny(Tail(bs), point)

\* every boundary has to contain the point
RECURSIVE InsideAll(_, _)
InsideAll(bs, point) ==
    IF bs = <<>> THEN TRUE
    ELSE IF ~contains(Head(bs), point) THEN FALSE
    ELSE InsideAll(Tail(bs), point)

\* union replaced by intersection
is_point_inside_all(bs, latitude, altitude) ==
    IF altitude # None /\ (altitude[1] > geofence_max_altitude
                            \/ altitude[1] < geofence_min_altitude)
      THEN FALSE
      ELSE bs # <<>> /\ InsideAll(bs, latitude)

\* the altitude test checks the maximum only
is_point_inside_no_floor(bs, latitude, altitude) ==
    IF altitude # None /\ altitude[1] > geofence_max_altitude
      THEN FALSE
      ELSE InsideAny(bs, latitude)

\* is_point_inside, lines 172-198
is_point_inside(bs, latitude, altitude) ==
    IF altitude # None /\ (altitude[1] > geofence_max_altitude
                            \/ altitude[1] < geofence_min_altitude)
      THEN FALSE
      ELSE InsideAny(bs, latitude)

\* the loop with <= for <: it keeps the last boundary at the least distance
RECURSIVE NearestLast(_, _, _)
NearestLast(bs, point, best) ==
    IF bs = <<>> THEN best
    ELSE LET nearest_point_on_boundary == nearest_point(Head(bs), point)
             d == distance(point, nearest_point_on_boundary)
         IN  IF best = None \/ d <= best[1].distance
               THEN NearestLast(Tail(bs), point,
                                Some([boundary |-> Head(bs),
                                      point |-> nearest_point_on_boundary,
                                      distance |-> d]))
               ELSE NearestLast(Tail(bs), point, best)

\* lines 219-233 and 274-284: the loop that keeps the first boundary at the
\* least distance; best is None (min_distance = inf) or the boundary found
\* so far with its nearest point and distance
RECURSIVE Nearest(_, _, _)
Nearest(bs, point, best) ==
    IF bs = <<>> THEN best
    ELSE LET nearest_point_on_boundary == nearest_point(Head(bs), point)
             d == distance(point, nearest_point_on_boundary)
         IN  IF best = None \/ d < best[1].distance
               THEN Nearest(Tail(bs), point,
                            Some([boundary |-> Head(bs),
                                  point |-> nearest_point_on_boundary,
                                  distance |-> d]))
               ELSE Nearest(Tail(bs), point, best)

\* get_nearest_safe_point, lines 200-253
get_nearest_safe_point(bs, latitude) ==
    IF InsideAny(bs, latitude) THEN latitude
    ELSE LET best == Nearest(bs, latitude, None) IN
         IF best = None THEN latitude
         ELSE LET nearest_boundary == best[1].boundary
                  nearest_safe_point == best[1].point
                  buffer_degrees == meters_to_degrees(buffer_distance)
              IN  IF /\ nearest_boundary.type = "circle"
                     /\ distance(nearest_safe_point, nearest_boundary.center)
                          > buffer_degrees
                    THEN IF nearest_boundary.center > nearest_safe_point
                           THEN nearest_safe_point + buffer_degrees
                           ELSE nearest_safe_point - buffer_degrees
                    ELSE nearest_safe_point

\* calculate_breach_distance, lines 255-287: the metres, or None for the
\* inf returned when there is no boundary at all
calculate_breach_distance(bs, latitude) ==
    IF InsideAny(bs, latitude) THEN Some(0)
    ELSE LET best == Nearest(bs, latitude, None) IN
         IF best = None THEN None
         ELSE Some((best[1].distance * 111111) \div DegreeScale)

\* the value a call returned: a truth value or a number
Truth(b) == [truth |-> b, number |-> None]
Number(n) == [truth |-> FALSE, number |-> n]

\* a client of the GeofenceManager asks is_point_inside
IsPointInsideCall ==
    /\ \E latitude \in Points, altitude \in QueryAltitudes :
         /\ gf_call' = [op |-> "is_point_inside", latitude |-> latitude,
                        altitude |-> altitude]
         /\ gf_result' = Truth(is_point_inside(boundaries, latitude, altitude))
    /\ UNCHANGED boundaries

\* ... get_nearest_safe_point
GetNearestSafePointCall ==
    /\ \E latitude \in Points :
         /\ gf_call' = [op |-> "get_nearest_safe_point", latitude |-> latitude,
                        altitude |-> None]
         /\ gf_result' = Number(Some(get_nearest_safe_point(boundaries, latitude)))
    /\ UNCHANGED boundaries

\* ... calculate_breach_distance
CalculateBreachDistanceCall ==
    /\ \E latitude \in Points :
         /\ gf_call' = [op |-> "calculate_breach_distance", latitude |-> latitude,
                        altitude |-> None]
         /\ gf_result' = Number(calculate_breach_distance(boundaries, latitude))
    /\ UNCHANGED boundaries

\* add_temporary_boundary, lines 289-304
AddTemporaryBoundary ==
    /\ Len(boundaries) < MaxBoundaries
    /\ \E boundary_data \in BoundaryData :
         /\ boundaries' = Append(boundaries, Boundary(boundary_data))
         /\ gf_call' = [op |-> "add_temporary_boundary", latitude |-> 0,
                        altitude |-> None]
         /\ gf_result' = Truth(TRUE)

\* remove_boundary, lines 306-323: the first boundary of that name goes
RemoveBoundary ==
    \E boundary_name \in {b.name : b \in BoundaryData} :
      LET found == {i \in 1..Len(boundaries) : boundaries[i].name = boundary_name} IN
      /\ gf_call' = [op |-> "remove_boundary", latitude |-> 0, altitude |-> None]
      /\ gf_result' = Truth(found # {})
      /\ IF found = {}
           THEN UNCHANGED boundaries
           ELSE LET i == CHOOSE k \in found : \A j \in found : k <= j IN
                boundaries' = SubSeq(boundaries, 1, i - 1)
                                \o SubSeq(boundaries, i + 1, Len(boundaries))

GeofenceStep ==
    \/ IsPointInsideCall \/ GetNearestSafePointCall
    \/ CalculateBreachDistanceCall
    \/ AddTemporaryBoundary \/ RemoveBoundary

\* _load_boundaries, lines 34-75: the configured boundaries in order, or
\* the default circle (radius 100 m unless configured) when there is none
\* and a default centre is configured
RECURSIVE LoadConfigured(_)
LoadConfigured(boundary_list) ==
    IF boundary_list = <<>> THEN <<>>
    ELSE <<Boundary(Head(boundary_list))>> \o LoadConfigured(Tail(boundary_list))

load_boundaries(config) ==
    LET loaded == LoadConfigured(config.boundaries) IN
    IF loaded = <<>> /\ config.default_center # None
      THEN <<Boundary([type |-> "circle", name |-> "Circle_0",
                       center |-> config.default_center[1],
                       radius |-> config.default_radius])>>
      ELSE loaded

\* sequences of distinct boundary configurations, MaxBoundaries at most
BoundaryLists ==
    UNION {{bl \in [1..n -> BoundaryData] :
              \A i, j \in 1..n : i # j => bl[i] # bl[j]} : n \in 0..MaxBoundaries}

\* config['geofence']
GeofenceConfigs ==
    {[boundaries |-> bl, default_center |-> None, default_radius |-> 100] :
        bl \in BoundaryLists}
    \cup {[boundaries |-> <<>>, default_center |-> Some(0), default_radius |-> 100]}

\* config['geofence'] of the flights: the main circle alone, and with the
\* yard polygon after it
FlightConfigs ==
    {c \in GeofenceConfigs :
       c.boundaries # <<>> /\ c.boundaries[1].name = "main"
       /\ \A i \in 1..Len(c.boundaries) : c.boundaries[i].name \in {"main", "yard"}}

\* ------------------------------------------------- DroneController.connect
\* lines 82-90: the status guard and the simulation branch
ConnectEnter(t) ==
    /\ pc[t] = "cn_enter"
    /\ IF status # "DISCONNECTED"
         THEN Return(t, "True") /\ UNCHANGED status
         ELSE IF simulation_mode
           THEN status' = "CONNECTED" /\ Return(t, "True")
           ELSE Goto(t, "cn_link") /\ UNCHANGED status
    /\ UNCHANGED <<simulation_mode, vehicle, running, monitoring_thread,
                   current_mission, current_waypoint_index, vehVars, timers>>

\* lines 94-99 and 118-121: dronekit connect() returns the handle or raises
ConnectLink(t) ==
    /\ pc[t] = "cn_link"
    /\ \/ vehicle' = TRUE /\ Goto(t, "cn_setup") /\ UNCHANGED status
       \/ status' = "ERROR" /\ Return(t, "False") /\ UNCHANGED vehicle
    /\ UNCHANGED <<simulation_mode, running, monitoring_thread,
                   current_mission, current_waypoint_index, vehVars, timers>>

\* lines 101-113 and 118-121: home location and airspeed are set over the
\* link (either may raise), then the monitor thread is started
ConnectSetup(t) ==
    /\ pc[t] = "cn_setup"
    /\ \/ \E m \in FreeMonitors :
            /\ running' = TRUE
            /\ monitoring_thread' = m
            /\ pc' = [pc EXCEPT ![t] = "cn_done", ![m] = "mon_check"]
            /\ UNCHANGED <<ret, rv, arg, target, status>>
       \/ /\ status' = "ERROR"
          /\ Return(t, "False")
          /\ UNCHANGED <<running, monitoring_thread>>
    /\ UNCHANGED <<simulation_mode, vehicle, current_mission,
                   current_waypoint_index, vehVars, timers>>

\* lines 115-116
ConnectDone(t) ==
    /\ pc[t] = "cn_done"
    /\ status' = "CONNECTED"
    /\ Return(t, "True")
    /\ UNCHANGED <<simulation_mode, vehicle, running, monitoring_thread,
                   current_mission, current_waypoint_index, vehVars, timers>>

\* ---------------------------------------------- DroneController.disconnect
\* lines 125-130
DisconnectEnter(t) ==
    /\ pc[t] = "dc_enter"
    /\ IF status = "DISCONNECTED"
         THEN Return(t, "none") /\ UNCHANGED running
         ELSE running' = FALSE /\ Goto(t, "dc_join")
    /\ UNCHANGED <<simulation_mode, status, vehicle, monitoring_thread,
                   current_mission, current_waypoint_index, vehVars, timers>>

\* join(timeout=2.0) gives up on a monitor that sleeps its 5 s backoff or is
\* blocked in a call on the link
JoinTimesOut(m) == pc[m] \in {"mon_backoff"} \cup InFlight

\* lines 131-136: join the monitor, then close the handle if there is one
DisconnectJoin(t) ==
    /\ pc[t] = "dc_join"
    /\ \/ monitoring_thread = "none"
       \/ /\ monitoring_thread # "none"
          /\ \/ pc[monitoring_thread] \in {"idle", "stopped"}
             \/ JoinTimesOut(monitoring_thread)
    /\ Goto(t, IF vehicle THEN "dc_closing" ELSE "dc_done")
    /\ UNCHANGED <<ctrlVars, vehVars, timers>>

\* lines 136-137: vehicle.close() completes
DisconnectClose(t) ==
    /\ pc[t] = "dc_closing"
    /\ vehicle' = FALSE
    /\ Goto(t, "dc_done")
    /\ UNCHANGED <<simulation_mode, status, running, monitoring_thread,
                   current_mission, current_waypoint_index, vehVars, timers>>

\* lines 139-140
DisconnectDone(t) ==
    /\ pc[t] = "dc_done"
    /\ status' = "DISCONNECTED"
    /\ Return(t, "none")
    /\ UNCHANGED <<simulation_mode, vehicle, running, monitoring_thread,
                   current_mission, current_waypoint_index, vehVars, timers>>

\* ------------------------------------------------- DroneController.takeoff
\* lines 152-159: no altitude (None, or 0) means the default one, and an
\* altitude above the maximum becomes the maximum
TakeoffAltitude(altitude) ==
    LET given == IF altitude = None \/ altitude = Some(0)
                   THEN default_altitude ELSE altitude[1]
    IN  IF given > max_altitude THEN max_altitude ELSE given

\* lines 152-181: the altitude, simulation branch, the guards, is_armable
TakeoffEnter(t) ==
    /\ pc[t] = "tk_enter"
    /\ IF simulation_mode
         THEN status' = "FLYING" /\ Return(t, "True")
         ELSE /\ UNCHANGED status
              /\ IF ~vehicle
                   THEN Return(t, "False")
                   ELSE IF status = "FLYING"
                     THEN Return(t, "True")
                     ELSE \/ Return(t, "False")     \* not armable, or the read raises
                          \/ GotoWith(t, "tk_arm",
                                      [NoTarget EXCEPT
                                         !.altitude = Some(TakeoffAltitude(arg[t].altitude))])
    /\ UNCHANGED <<simulation_mode, vehicle, running, monitoring_thread,
                   current_mission, current_waypoint_index, vehVars, timers>>

\* lines 181-184 and 214-216: mode = GUIDED and armed = True are sent
TakeoffArm(t) ==
    /\ pc[t] = "tk_arm"
    /\ \/ vehicle /\ mode' = "GUIDED" /\ Goto(t, "tk_arm_wait")
       \/ Return(t, "False") /\ UNCHANGED mode
    /\ UNCHANGED <<ctrlVars, armed, battery, timers>>

\* the timeout treated as a link error: status = ERROR before the return
TakeoffArmWaitSetsError(t) ==
    /\ pc[t] = "tk_arm_wait"
    /\ \/ /\ vehicle /\ armed' = TRUE /\ Goto(t, "tk_takeoff")
          /\ UNCHANGED status
       \/ /\ vehicle /\ ~armed /\ Return(t, "ArmTimeout")
          /\ status' = "ERROR" /\ UNCHANGED armed
       \/ /\ ~vehicle /\ Return(t, "False")
          /\ UNCHANGED <<armed, status>>
    /\ UNCHANGED <<simulation_mode, vehicle, running, monitoring_thread,
                   current_mission, current_waypoint_index, mode, battery, timers>>

\* the arming recorded in the status: status = ARMED once armed is read
TakeoffArmWaitSetsArmed(t) ==
    /\ pc[t] = "tk_arm_wait"
    /\ \/ /\ vehicle /\ armed' = TRUE /\ Goto(t, "tk_takeoff")
          /\ status' = "ARMED"
       \/ /\ vehicle /\ ~armed /\ Return(t, "ArmTimeout")
          /\ UNCHANGED <<armed, status>>
       \/ /\ ~vehicle /\ Return(t, "False")
          /\ UNCHANGED <<armed, status>>
    /\ UNCHANGED <<simulation_mode, vehicle, running, monitoring_thread,
                   current_mission, current_waypoint_index, mode, battery, timers>>

\* lines 186-193: the wait for arming ends when the vehicle reports armed,
\* or after 10 s with "Arming timeout" and False
TakeoffArmWait(t) ==
    /\ pc[t] = "tk_arm_wait"
    /\ \/ vehicle /\ armed' = TRUE /\ Goto(t, "tk_takeoff")
       \/ vehicle /\ ~armed /\ Return(t, "ArmTimeout") /\ UNCHANGED armed
       \/ ~vehicle /\ Return(t, "False") /\ UNCHANGED armed
    /\ UNCHANGED <<ctrlVars, mode, battery, timers>>

\* lines 195-197: simple_takeoff(altitude), with the altitude in target[t],
\* completes or raises
TakeoffCommand(t) ==
    /\ pc[t] = "tk_takeoff"
    /\ \/ vehicle /\ Goto(t, "tk_alt_wait")
       \/ Return(t, "False")
    /\ UNCHANGED <<ctrlVars, vehVars, timers>>

\* lines 200-216: the altitude is read; at 95% of the target or above the
\* loop ends with status = FLYING, below it the thread sleeps 1 s, and a
\* read that raises ends the takeoff with False
TakeoffAltWait(t) ==
    /\ pc[t] = "tk_alt_wait"
    /\ \/ vehicle /\ status' = "FLYING" /\ Return(t, "True")
       \/ vehicle /\ Goto(t, "tk_alt_sleep") /\ UNCHANGED status
       \/ Return(t, "False") /\ UNCHANGED status
    /\ UNCHANGED <<simulation_mode, vehicle, running, monitoring_thread,
                   current_mission, current_waypoint_index, vehVars, timers>>

\* line 208 and 200: the sleep ends and the altitude is read again
TakeoffAltSleep(t) ==
    /\ pc[t] = "tk_alt_sleep"
    /\ Goto(t, "tk_alt_wait")
    /\ UNCHANGED <<ctrlVars, vehVars, timers>>

\* ---------------------------------------------------- DroneController.land
\* lines 225-238
LandEnter(t) ==
    /\ pc[t] = "ld_enter"
    /\ IF simulation_mode
         THEN /\ timers < MaxTimers
              /\ status' = "LANDING"
              /\ timers' = timers + 1
              /\ Return(t, "True")
         ELSE /\ UNCHANGED <<status, timers>>
              /\ IF ~vehicle \/ status \notin {"FLYING", "RETURNING"}
                   THEN Return(t, "False")
                   ELSE Goto(t, "ld_mode")
    /\ UNCHANGED <<simulation_mode, vehicle, running, monitoring_thread,
                   current_mission, current_waypoint_index, vehVars>>

\* lines 240-249: mode = LAND is sent, then status = LANDING
LandMode(t) ==
    /\ pc[t] = "ld_mode"
    /\ \/ vehicle /\ mode' = "LAND" /\ status' = "LANDING" /\ Return(t, "True")
       \/ Return(t, "False") /\ UNCHANGED <<mode, status>>
    /\ UNCHANGED <<simulation_mode, vehicle, running, monitoring_thread,
                   current_mission, current_waypoint_index, armed, battery, timers>>

\* ------------------------------------------ DroneController.return_to_home
\* return_to_home without its simulation branch
ReturnEnterNoSimulation(t) ==
    /\ pc[t] = "rt_enter"
    /\ IF ~vehicle \/ status # "FLYING"
         THEN Return(t, "False")
         ELSE Goto(t, "rt_mode")
    /\ UNCHANGED <<ctrlVars, vehVars, timers>>

\* lines 258-271
ReturnEnter(t) ==
    /\ pc[t] = "rt_enter"
    /\ IF simulation_mode
         THEN /\ timers < MaxTimers
              /\ status' = "RETURNING"
              /\ timers' = timers + 1
              /\ Return(t, "True")
         ELSE /\ UNCHANGED <<status, timers>>
              /\ IF ~vehicle \/ status # "FLYING"
                   THEN Return(t, "False")
                   ELSE Goto(t, "rt_mode")
    /\ UNCHANGED <<simulation_mode, vehicle, running, monitoring_thread,
                   current_mission, current_waypoint_index, vehVars>>

\* lines 273-285: airspeed and mode = RTL are sent, then status = RETURNING
ReturnMode(t) ==
    /\ pc[t] = "rt_mode"
    /\ \/ vehicle /\ mode' = "RTL" /\ status' = "RETURNING" /\ Return(t, "True")
       \/ Return(t, "False") /\ UNCHANGED <<mode, status>>
    /\ UNCHANGED <<simulation_mode, vehicle, running, monitoring_thread,
                   current_mission, current_waypoint_index, armed, battery, timers>>

\* ------------------------------------- DroneController.move_to_coordinates
\* lines 319-334: the target of the goto.  A latitude that is_point_inside
\* rejects is replaced by get_nearest_safe_point (with no geofence manager
\* the latitude is kept, which is also what a manager without boundaries
\* gives); an altitude above the maximum becomes the maximum, and without
\* an altitude (None) the one read from the vehicle is used
MoveTarget(bs, location, altitude) ==
    LET lat == location.latitude[1] IN
    [latitude |-> Some(IF ~is_point_inside(bs, lat, None)
                         THEN get_nearest_safe_point(bs, lat) ELSE lat),
     altitude |-> IF altitude # None /\ altitude[1] > max_altitude
                    THEN Some(max_altitude) ELSE altitude,
     commands |-> <<>>]

\* lines 298-334: the simulation branch, the guards, the target
MoveEnter(t) ==
    /\ pc[t] = "mv_enter"
    /\ IF simulation_mode
         THEN Return(t, "True")
         ELSE IF ~vehicle \/ status # "FLYING"
           THEN Return(t, "False")
           ELSE IF arg[t].location.latitude = None
             THEN Return(t, "False")
             ELSE GotoWith(t, "mv_goto",
                           MoveTarget(boundaries, arg[t].location, arg[t].altitude))
    /\ UNCHANGED <<ctrlVars, vehVars, timers>>

\* lines 336-347: simple_goto(target), with the target in target[t],
\* completes or raises
MoveGoto(t) ==
    /\ pc[t] = "mv_goto"
    /\ \/ vehicle /\ Return(t, "True")
       \/ Return(t, "False")
    /\ UNCHANGED <<ctrlVars, vehVars, timers>>

\* -------------------------------------------- DroneController.load_mission
\* lines 378-396: the commands added for the waypoints, in their order
RECURSIVE MissionCommands(_, _)
MissionCommands(bs, waypoints) ==
    IF waypoints = <<>> THEN <<>>
    ELSE LET waypoint == Head(waypoints)
             lat == waypoint.latitude
             alt == IF waypoint.altitude = None
                      THEN default_altitude ELSE waypoint.altitude[1]
         IN  <<[latitude |-> IF ~is_point_inside(bs, lat, None)
                               THEN get_nearest_safe_point(bs, lat) ELSE lat,
                altitude |-> alt]>>
             \o MissionCommands(bs, Tail(waypoints))

\* lines 359-396: the simulation branch, the guards, and the commands
\* cleared and added for the upload
MissionEnter(t) ==
    /\ pc[t] = "ms_enter"
    /\ IF simulation_mode
         THEN Return(t, "True")
         ELSE IF ~vehicle \/ arg[t].mission_id \notin MissionTable
           THEN Return(t, "False")
           ELSE GotoWith(t, "ms_upload",
                         [NoTarget EXCEPT
                            !.commands = MissionCommands(boundaries,
                                                         missions[arg[t].mission_id])])
    /\ UNCHANGED <<ctrlVars, vehVars, timers>>

\* lines 398-410: commands.upload() sends the commands in target[t] and
\* mode = AUTO is sent
MissionUpload(t) ==
    /\ pc[t] = "ms_upload"
    /\ \/ /\ vehicle
          /\ mode' = "AUTO"
          /\ current_mission' = arg[t].mission_id
          /\ current_waypoint_index' = 0
          /\ Return(t, "True")
       \/ /\ Return(t, "False")
          /\ UNCHANGED <<mode, current_mission, current_waypoint_index>>
    /\ UNCHANGED <<simulation_mode, status, vehicle, running, monitoring_thread,
                   armed, battery, timers>>

\* a step of a controller method, by whichever thread is inside it
MethodStep(t) ==
    \/ ConnectEnter(t) \/ ConnectLink(t) \/ ConnectSetup(t) \/ ConnectDone(t)
    \/ DisconnectEnter(t) \/ DisconnectJoin(t) \/ DisconnectClose(t)
    \/ DisconnectDone(t)
    \/ TakeoffEnter(t) \/ TakeoffArm(t) \/ TakeoffArmWait(t)
    \/ TakeoffCommand(t) \/ TakeoffAltWait(t) \/ TakeoffAltSleep(t)
    \/ LandEnter(t) \/ LandMode(t)
    \/ ReturnEnter(t) \/ ReturnMode(t)
    \/ MoveEnter(t) \/ MoveGoto(t)
    \/ MissionEnter(t) \/ MissionUpload(t)

\* ----------------------------------------- DroneController._monitor_drone
\* line 495: while self.running and self.vehicle (after the sleep of the
\* tick before)
MonitorCheck(m) ==
    /\ pc[m] = "mon_check"
    /\ Goto(m, IF running /\ vehicle THEN "mon_mode" ELSE "stopped")
    /\ UNCHANGED <<ctrlVars, vehVars, timers>>

\* the exception handler missing: the exception ends the thread
MonitorExceptionKills(m) ==
    /\ Goto(m, "stopped")

\* lines 540-542: an exception in the tick is logged and the thread sleeps
\* the 5 s backoff
MonitorException(m) ==
    /\ Goto(m, "mon_backoff")

\* line 542 and 495: the backoff ends and the loop condition is read again
MonitorBackoff(m) ==
    /\ pc[m] = "mon_backoff"
    /\ Goto(m, "mon_check")
    /\ UNCHANGED <<ctrlVars, vehVars, timers>>

\* lines 497-503: reconcile status with the mode the link reports
MonitorMode(m) ==
    /\ pc[m] = "mon_mode"
    /\ \/ /\ vehicle
          /\ status' = IF mode = "LAND" /\ status # "LANDING" THEN "LANDING"
                       ELSE IF mode = "RTL" /\ status # "RETURNING" THEN "RETURNING"
                       ELSE status
          /\ Goto(m, "mon_landed")
       \/ MonitorException(m) /\ UNCHANGED status
    /\ UNCHANGED <<simulation_mode, vehicle, running, monitoring_thread,
                   current_mission, current_waypoint_index, vehVars, timers>>

\* lines 505-515: the landed check, then the mission progress
MonitorLanded(m) ==
    /\ pc[m] = "mon_landed"
    /\ \/ /\ vehicle
          /\ status' = IF status = "LANDING" /\ ~armed THEN "CONNECTED" ELSE status
          /\ IF mode = "AUTO" /\ current_mission # "none"
               THEN \E next_waypoint \in 0..MaxWaypoint :
                        current_waypoint_index' = next_waypoint
               ELSE UNCHANGED current_waypoint_index
          /\ Goto(m, "mon_battery")
       \/ MonitorException(m) /\ UNCHANGED <<status, current_waypoint_index>>
    /\ UNCHANGED <<simulation_mode, vehicle, running, monitoring_thread,
                   current_mission, vehVars, timers>>

\* lines 517-524: the battery level is read; below the critical level
\* return_to_home() is called
MonitorBattery(m) ==
    /\ pc[m] = "mon_battery"
    /\ \/ /\ vehicle
          /\ \E battery_level \in BatteryLevels :
               /\ battery' = battery_level
               /\ IF battery_level < critical_battery_level
                    THEN Call(m, "rt_enter", "mon_geofence", NoArguments)
                    ELSE Goto(m, "mon_geofence")
       \/ /\ vehicle
          /\ Goto(m, "mon_geofence")            \* battery.level is None
          /\ UNCHANGED battery
       \/ MonitorException(m) /\ UNCHANGED battery
    /\ UNCHANGED <<ctrlVars, mode, armed, timers>>

\* the geofence step taken while RETURNING as well
MonitorGeofenceWhileReturning(m) ==
    /\ pc[m] = "mon_geofence"
    /\ IF status \in {"FLYING", "RETURNING"}
         THEN \/ /\ vehicle
                 /\ \E lat \in VehiclePositions :
                      IF ~is_point_inside(boundaries, lat, None)
                        THEN Call(m, "mv_enter", "mon_check",
                                  [NoArguments EXCEPT
                                     !.location =
                                       [latitude |->
                                          Some(get_nearest_safe_point(boundaries, lat))]])
                        ELSE Goto(m, "mon_check")
              \/ MonitorException(m)
         ELSE Goto(m, "mon_check")
    /\ UNCHANGED <<ctrlVars, vehVars, timers>>

\* lines 526-538: while FLYING the position is read; outside the geofence
\* move_to_coordinates(nearest safe point) is called; then sleep(1)
MonitorGeofence(m) ==
    /\ pc[m] = "mon_geofence"
    /\ IF status = "FLYING"
         THEN \/ /\ vehicle
                 /\ \E lat \in VehiclePositions :
                      IF ~is_point_inside(boundaries, lat, None)
                        THEN Call(m, "mv_enter", "mon_check",
                                  [NoArguments EXCEPT
                                     !.location =
                                       [latitude |->
                                          Some(get_nearest_safe_point(boundaries, lat))]])
                        ELSE Goto(m, "mon_check")
              \/ MonitorException(m)
         ELSE Goto(m, "mon_check")
    /\ UNCHANGED <<ctrlVars, vehVars, timers>>

MonitorStep(m) ==
    \/ MonitorCheck(m) \/ MonitorBackoff(m) \/ MonitorMode(m)
    \/ MonitorLanded(m) \/ MonitorBattery(m) \/ MonitorGeofence(m)
    \/ MethodStep(m)

\* --------------------------- DroneController._simulated_landing_complete
\* lines 486-489: a pending timer fires
SimulatedLandingComplete ==
    /\ timers > 0
    /\ timers' = timers - 1
    /\ status' = "CONNECTED"
    /\ UNCHANGED <<simulation_mode, vehicle, running, monitoring_thread,
                   current_mission, current_waypoint_index, thrVars, vehVars>>

\* ------------------------------------------------------------ the vehicle
\* the vehicle lands and disarms itself in LAND or RTL mode
VehicleLanded ==
    /\ armed /\ mode \in {"LAND", "RTL"}
    /\ armed' = FALSE
    /\ UNCHANGED <<ctrlVars, thrVars, mode, battery, timers>>

\* the pilot's transmitter or a failsafe switches a flying vehicle to LAND
\* or RTL
ExternalModeChange ==
    /\ armed
    /\ \E mo \in {"LAND", "RTL"} : mo # mode /\ mode' = mo
    /\ UNCHANGED <<ctrlVars, thrVars, armed, battery, timers>>

VehicleStep == VehicleLanded \/ ExternalModeChange

\* ------------------------------------------------- a client of the class
\* a caller of DroneController (test_system.py drives it this way): any
\* public method, one call after the other
ClientCall(t) ==
    /\ pc[t] = "client"
    /\ \/ Call(t, "cn_enter", "client", NoArguments)
       \/ Call(t, "dc_enter", "client", NoArguments)
       \/ \E altitude \in TakeoffAltitudes :
            Call(t, "tk_enter", "client", [NoArguments EXCEPT !.altitude = altitude])
       \/ Call(t, "ld_enter", "client", NoArguments)
       \/ Call(t, "rt_enter", "client", NoArguments)
       \/ \E location \in MoveLocations, altitude \in MoveAltitudes :
            Call(t, "mv_enter", "client",
                 [NoArguments EXCEPT !.location = location, !.altitude = altitude])
       \/ \E mission_id \in MissionIds :
            Call(t, "ms_enter", "client", [NoArguments EXCEPT !.mission_id = mission_id])
    /\ UNCHANGED <<ctrlVars, vehVars, timers>>

ClientStep == ClientCall("main") \/ MethodStep("main")

\* ------------------------------------------------- DroneSystem.shutdown
\* main.py lines 159-160
ShutdownEnter(t) ==
    /\ pc[t] = "sd_enter"
    /\ sys_running' = FALSE
    /\ sd_landed' = [sd_landed EXCEPT ![t] = FALSE]
    /\ Goto(t, "sd_flying")
    /\ UNCHANGED <<ctrlVars, vehVars, timers, event_queue, command_queue,
                   events, commands, n_events, n_commands>>

\* DroneController.is_flying, line 473
is_flying == status \in {"FLYING", "RETURNING"}

\* main.py lines 163-165: land() if is_flying()
ShutdownLand(t) ==
    /\ pc[t] = "sd_flying"
    /\ IF is_flying
         THEN /\ Call(t, "ld_enter", "sd_disc", NoArguments)
              /\ sd_landed' = [sd_landed EXCEPT ![t] = TRUE]
         ELSE Goto(t, "sd_disc") /\ UNCHANGED sd_landed
    /\ UNCHANGED <<ctrlVars, vehVars, timers, sys_running, event_queue,
                   command_queue, events, commands, n_events, n_commands>>

\* main.py line 168: disconnect()
ShutdownDisconnect(t) ==
    /\ pc[t] = "sd_disc"
    /\ Call(t, "dc_enter", "sd_stop", NoArguments)
    /\ UNCHANGED <<ctrlVars, vehVars, timers, sysVars>>

\* main.py lines 171-174: the detector and the communicator are stopped
ShutdownStop(t) ==
    /\ pc[t] = "sd_stop"
    /\ Return(t, "none")
    /\ UNCHANGED <<ctrlVars, vehVars, timers, sysVars>>

ShutdownStep(t) ==
    \/ ShutdownEnter(t) \/ ShutdownLand(t) \/ ShutdownDisconnect(t)
    \/ ShutdownStop(t)

\* ------------------------------------------------------------ the queues
\* the newest item first: the list of a drain that takes from the wrong end
get_commands_newest_first(queue) ==
    [i \in 1..Len(queue) |-> queue[Len(queue) + 1 - i]]

\* communicator.py lines 131-141 (get_commands): get() until the queue is
\* empty, each item appended to the list returned
get_commands(queue) == [i \in 1..Len(queue) |-> queue[i]]

\* detector.py lines 447-457 (get_events): the same loop on the event queue
get_events(queue) == [i \in 1..Len(queue) |-> queue[i]]

\* --------------------------------------------- DroneSystem.control_loop
\* main.py lines 97-100: the loop condition, then detector.get_events()
ControlLoop ==
    /\ pc["ctl"] = "ctl_loop"
    /\ IF sys_running
         THEN /\ events' = get_events(event_queue)
              /\ event_queue' = <<>>
              /\ Goto("ctl", "ctl_events")
         ELSE /\ Goto("ctl", "done")
              /\ UNCHANGED <<events, event_queue>>
    /\ UNCHANGED <<ctrlVars, vehVars, timers, sys_running, command_queue,
                   commands, n_events, n_commands, sd_landed>>

\* main.py lines 121-137 (handle_emergency): the four kinds move the drone
EmergencyKinds == {"fire", "break_in", "suspicious", "threat"}

\* main.py lines 101-107: the next drained event is alerted and handled;
\* after the last one communicator.get_commands() drains the commands
ControlEvents ==
    /\ pc["ctl"] = "ctl_events"
    /\ IF events # <<>>
         THEN /\ events' = Tail(events)
              /\ LET event == Head(events) IN
                 IF event.type \in EmergencyKinds
                   THEN Call("ctl", "mv_enter", "ctl_events",
                             [NoArguments EXCEPT
                                !.location = event.location,
                                !.altitude = Some(EmergencyAltitude(event.type))])
                   ELSE Goto("ctl", "ctl_events")
              /\ UNCHANGED <<commands, command_queue>>
         ELSE /\ commands' = get_commands(command_queue)
              /\ command_queue' = <<>>
              /\ Goto("ctl", "ctl_cmds")
              /\ UNCHANGED events
    /\ UNCHANGED <<ctrlVars, vehVars, timers, sys_running, event_queue,
                   n_events, n_commands, sd_landed>>

\* main.py lines 117-119: an exception in the loop is logged, shutdown()
\* is called and the thread ends
ControlException ==
    /\ Call("ctl", "sd_enter", "done", NoArguments)

\* a command of a type handle_command does not know treated as a land
CommandEntryLandsUnknown(type) ==
    CASE type = "move" -> "mv_enter"
      [] type = "return" -> "rt_enter"
      [] type = "takeoff" -> "tk_enter"
      [] type = "mission" -> "ms_enter"
      [] type = "shutdown" -> "sd_enter"
      [] OTHER -> "ld_enter"

\* main.py lines 139-155 (handle_command): the method handle_command calls
\* for a command type, "" for a type it ignores
CommandEntry(type) ==
    CASE type = "move" -> "mv_enter"
      [] type = "return" -> "rt_enter"
      [] type = "land" -> "ld_enter"
      [] type = "takeoff" -> "tk_enter"
      [] type = "mission" -> "ms_enter"
      [] type = "shutdown" -> "sd_enter"
      [] OTHER -> ""

\* main.py lines 144-153: the argument handle_command passes.  The move
\* commands of ground control name a latitude outside the geofence and no
\* altitude, its takeoff commands no altitude
CommandArgument(c) ==
    CASE c.type = "move" ->
           [NoArguments EXCEPT !.location = [latitude |-> Some(24)]]
      [] c.type = "takeoff" ->
           [NoArguments EXCEPT !.altitude = Some(default_altitude)]
      [] c.type = "mission" -> [NoArguments EXCEPT !.mission_id = c.mission_id]
      [] OTHER -> NoArguments

\* main.py line 153: command['mission_id'] of a mission command without the
\* key raises KeyError
Malformed(c) == c.type = "mission" /\ c.mission_id = "none"

\* main.py lines 108-109 and 139-155: the next drained command is handled
ControlCommands ==
    /\ pc["ctl"] = "ctl_cmds"
    /\ IF commands # <<>>
         THEN /\ commands' = Tail(commands)
              /\ LET c == Head(commands) IN
                 IF Malformed(c)
                   THEN ControlException
                   ELSE IF CommandEntry(c.type) = ""
                     THEN Goto("ctl", "ctl_cmds")
                     ELSE Call("ctl", CommandEntry(c.type), "ctl_cmds",
                               CommandArgument(c))
         ELSE /\ Goto("ctl", "ctl_status")
              /\ UNCHANGED commands
    /\ UNCHANGED <<ctrlVars, vehVars, timers, sys_running, event_queue,
                   command_queue, events, n_events, n_commands, sd_landed>>

\* main.py lines 112-115: get_status() reads the vehicle over the link
\* (drone_controller.py lines 445-464, which may raise), send_status, sleep
ControlStatus ==
    /\ pc["ctl"] = "ctl_status"
    /\ \/ Goto("ctl", "ctl_loop")
       \/ ~simulation_mode /\ vehicle /\ ControlException
    /\ UNCHANGED <<ctrlVars, vehVars, timers, sysVars>>

ControlStep ==
    \/ ControlLoop \/ ControlEvents \/ ControlCommands \/ ControlStatus

\* ---------------------------------------------------- DroneSystem.start
\* main.py lines 68-79: running = True, the detector and the communicator
\* are started, connect() is called
SystemStart ==
    /\ pc["main"] = "sys_start"
    /\ sys_running' = TRUE
    /\ Call("main", "cn_enter", "sys_connect", NoArguments)
    /\ UNCHANGED <<ctrlVars, vehVars, timers, event_queue, command_queue,
                   events, commands, n_events, n_commands, sd_landed>>

\* main.py lines 79-90: a failed connect() shuts down; otherwise the
\* control thread is started
SystemConnected ==
    /\ pc["main"] = "sys_connect"
    /\ IF Failed(rv["main"])
         THEN Call("main", "sd_enter", "done", NoArguments)
         ELSE /\ pc' = [pc EXCEPT !["main"] = "sys_wait", !["ctl"] = "ctl_loop"]
              /\ UNCHANGED <<ret, rv, arg, target>>
    /\ UNCHANGED <<ctrlVars, vehVars, timers, sysVars>>

\* main.py lines 186-194: KeyboardInterrupt ends the main thread's sleep
\* and shutdown() is called
SystemInterrupt ==
    /\ pc["main"] = "sys_wait"
    /\ Call("main", "sd_enter", "done", NoArguments)
    /\ UNCHANGED <<ctrlVars, vehVars, timers, sysVars>>

SystemStep == SystemStart \/ SystemConnected \/ SystemInterrupt

\* ------------------------------------------------------- the producers
\* The producers put at any time.  A put made while the control loop is in
\* a tick is seen by the drain after it exactly as a put made in the sleep
\* that ends the tick, so the puts are taken while the loop sleeps (or has
\* not started).
ControlSleeps == pc["ctl"] \in {"off", "ctl_loop"}

\* detector.py lines 414-444 (_add_event): event_queue.put(event)
DetectEvent ==
    /\ ControlSleeps
    /\ n_events < MaxEvents
    /\ \E type \in EventKinds, location \in EventLocations :
         event_queue' = Append(event_queue, [type |-> type, location |-> location])
    /\ n_events' = n_events + 1
    /\ UNCHANGED <<ctrlVars, thrVars, vehVars, timers, sys_running,
                   command_queue, events, commands, n_commands, sd_landed>>

\* communicator.py lines 172-175 and 268-270: command_queue.put(data)
ReceiveCommand ==
    /\ ControlSleeps
    /\ n_commands < MaxCommands
    /\ \E c \in Commands : command_queue' = Append(command_queue, c)
    /\ n_commands' = n_commands + 1
    /\ UNCHANGED <<ctrlVars, thrVars, vehVars, timers, sys_running,
                   event_queue, events, commands, n_events, sd_landed>>

\* ----------------------------------------------------------- Communicator
\* a message counted as a command only when its type is one handle_command
\* knows
has_type_known(data) ==
    data.type \in {"move", "return", "land", "takeoff", "mission", "shutdown"}

\* communicator.py lines 173 and 269: 'type' in data
has_type(data) == data.type # "none"

\* the replies: the acknowledgment of the WebSocket handler (lines 179-184)
\* and the JSON bodies of the REST route (lines 272-285)
Ack(data) == [type |-> "ack", command |-> data.type, status |-> "received"]
RestOk == [type |-> "none", command |-> "none", status |-> "ok"]
RestError == [type |-> "none", command |-> "none", status |-> "error"]

\* communicator.py lines 168-187 (handler): a message of a connected client
\* is parsed; with a 'type' it is put on the command queue and
\* acknowledged; text that is not JSON is logged
WebSocketMessage ==
    /\ n_messages < MaxMessages
    /\ n_messages' = n_messages + 1
    /\ \E message \in Messages :
         /\ comm_call' = [transport |-> "websocket", json |-> message.json,
                          data |-> message.data]
         /\ IF message.json /\ has_type(message.data)
              THEN /\ command_queue' = Append(command_queue, message.data)
                   /\ replies' = Append(replies, Ack(message.data))
              ELSE UNCHANGED <<command_queue, replies>>
    /\ UNCHANGED commands

\* communicator.py lines 265-285 (post_command): a command with a 'type' is
\* put on the command queue and answered with status ok, one without with
\* status error (400), and a body that is not JSON with status error (500)
RestPostCommand ==
    /\ n_messages < MaxMessages
    /\ n_messages' = n_messages + 1
    /\ \E message \in Messages :
         /\ comm_call' = [transport |-> "rest", json |-> message.json,
                          data |-> message.data]
         /\ IF message.json /\ has_type(message.data)
              THEN /\ command_queue' = Append(command_queue, message.data)
                   /\ replies' = Append(replies, RestOk)
              ELSE /\ replies' = Append(replies, RestError)
                   /\ UNCHANGED command_queue
    /\ UNCHANGED commands

\* communicator.py lines 131-141: the consumer takes what is queued
GetCommandsCall ==
    /\ command_queue # <<>>
    /\ commands' = get_commands(command_queue)
    /\ command_queue' = <<>>
    /\ UNCHANGED commVars

CommunicatorStep == WebSocketMessage \/ RestPostCommand \/ GetCommandsCall

\* ------------------------------------------------------------------ Init
\* DroneController.__init__ (lines 43-71); the vehicle stands disarmed with
\* a full battery
CtrlInit ==
    /\ simulation_mode \in BOOLEAN
    /\ status = "DISCONNECTED"
    /\ vehicle = FALSE
    /\ running = FALSE
    /\ monitoring_thread = "none"
    /\ current_mission = "none"
    /\ current_waypoint_index = 0
    /\ mode = "STABILIZE"
    /\ armed = FALSE
    /\ battery = 75
    /\ timers = 0

\* DroneSystem.__init__ (main.py lines 47-62) and the empty queues
SysInit ==
    /\ sys_running = FALSE
    /\ event_queue = <<>>
    /\ command_queue = <<>>
    /\ events = <<>>
    /\ commands = <<>>
    /\ n_events = 0
    /\ n_commands = 0
    /\ sd_landed = [t \in Callers |-> FALSE]

ThreadInit(main) ==
    /\ pc = [t \in Threads |-> IF t = "main" THEN main
                               ELSE IF t = "ctl" THEN "off" ELSE "idle"]
    /\ ret = [t \in Threads |-> <<>>]
    /\ rv = [t \in Threads |-> "none"]
    /\ arg = [t \in Threads |-> NoArguments]
    /\ target = [t \in Threads |-> NoTarget]

\* GeofenceManager.__init__ (geofence_manager.py lines 23-30), no call made
GeofenceInit(configs) ==
    /\ boundaries \in {load_boundaries(config) : config \in configs}
    /\ gf_call = [op |-> "none", latitude |-> 0, altitude |-> None]
    /\ gf_result = Truth(FALSE)

\* Communicator.__init__ (communicator.py lines 26-46): nothing received
CommInit ==
    /\ comm_call = [transport |-> "none", json |-> FALSE, data |-> NoType]
    /\ replies = <<>>
    /\ n_messages = 0

\* the class DroneController under a client that calls its methods
Init ==
    /\ CtrlInit /\ SysInit /\ ThreadInit("client")
    /\ GeofenceInit(FlightConfigs) /\ CommInit

Next ==
    \/ ClientStep /\ UNCHANGED <<sysVars, gfVars, commVars>>
    \/ \E m \in Monitors : MonitorStep(m) /\ UNCHANGED <<sysVars, gfVars, commVars>>
    \/ SimulatedLandingComplete /\ UNCHANGED <<sysVars, gfVars, commVars>>
    \/ VehicleStep /\ UNCHANGED <<sysVars, gfVars, commVars>>

Spec == Init /\ [][Next]_vars

\* config['geofence'] of the program: the main circle, then the yard
SystemConfigs == {c \in FlightConfigs : Len(c.boundaries) = MaxBoundaries}

\* the program: DroneSystem, started by the main thread
SystemInit ==
    /\ CtrlInit /\ SysInit /\ ThreadInit("sys_start")
    /\ GeofenceInit(SystemConfigs) /\ CommInit

SystemNext ==
    \/ SystemStep /\ UNCHANGED <<gfVars, commVars>>
    \/ ControlStep /\ UNCHANGED <<gfVars, commVars>>
    \/ \E t \in Callers : ShutdownStep(t) /\ UNCHANGED <<gfVars, commVars>>
    \/ \E t \in Callers : MethodStep(t) /\ UNCHANGED <<sysVars, gfVars, commVars>>
    \/ \E m \in Monitors : MonitorStep(m) /\ UNCHANGED <<sysVars, gfVars, commVars>>
    \/ SimulatedLandingComplete /\ UNCHANGED <<sysVars, gfVars, commVars>>
    \/ VehicleStep /\ UNCHANGED <<sysVars, gfVars, commVars>>
    \/ DetectEvent /\ UNCHANGED <<gfVars, commVars>>
    \/ ReceiveCommand /\ UNCHANGED <<gfVars, commVars>>

SystemSpec == SystemInit /\ [][SystemNext]_vars

\* the monitor runs whenever the scheduler lets it: its sleeps end and its
\* calls on the link return
LiveSpec ==
    Spec /\ \A m \in Monitors : WF_vars(MonitorStep(m) /\ UNCHANGED <<sysVars, gfVars, commVars>>)

\* a thread that called a controller method runs whenever the scheduler
\* lets it: the method's sleeps end and its calls on the link return
CallerLiveSpec ==
    Spec /\ WF_vars(MethodStep("main") /\ UNCHANGED <<sysVars, gfVars, commVars>>)

\* ---------------------------------------- connections, one after the other
\* the monitor threads alive at once that this specification allows: the one
\* of a connection and the one of the connection before it
MonitorSlots == {"m1", "m2"}

\* a caller that only connects and disconnects
ConnectionCall(t) ==
    /\ pc[t] = "client"
    /\ \/ Call(t, "cn_enter", "client", NoArguments)
       \/ Call(t, "dc_enter", "client", NoArguments)
    /\ UNCHANGED <<ctrlVars, vehVars, timers>>

MonitorSpecInit ==
    /\ CtrlInit /\ SysInit /\ GeofenceInit(SystemConfigs) /\ CommInit
    /\ pc = [t \in Callers \cup MonitorSlots |->
               IF t = "main" THEN "client" ELSE IF t = "ctl" THEN "off" ELSE "idle"]
    /\ ret = [t \in Callers \cup MonitorSlots |-> <<>>]
    /\ rv = [t \in Callers \cup MonitorSlots |-> "none"]
    /\ arg = [t \in Callers \cup MonitorSlots |-> NoArguments]
    /\ target = [t \in Callers \cup MonitorSlots |-> NoTarget]

MonitorSpecNext ==
    \/ ConnectionCall("main") /\ UNCHANGED <<sysVars, gfVars, commVars>>
    \/ MethodStep("main") /\ UNCHANGED <<sysVars, gfVars, commVars>>
    \/ \E m \in MonitorSlots :
         MonitorStep(m) /\ UNCHANGED <<sysVars, gfVars, commVars>>

MonitorSpec == MonitorSpecInit /\ [][MonitorSpecNext]_vars

\* the class GeofenceManager under a client that calls its methods
GeofenceSpecInit ==
    /\ CtrlInit /\ SysInit /\ ThreadInit("off")
    /\ GeofenceInit(GeofenceConfigs) /\ CommInit

GeofenceNext ==
    GeofenceStep
      /\ UNCHANGED <<ctrlVars, thrVars, vehVars, timers, sysVars, commVars>>

GeofenceSpec == GeofenceSpecInit /\ [][GeofenceNext]_vars

\* the class Communicator under clients that send it messages and a
\* consumer of its command queue
CommunicatorInit ==
    /\ CtrlInit /\ SysInit /\ ThreadInit("off")
    /\ GeofenceInit(SystemConfigs) /\ CommInit

CommunicatorNext ==
    CommunicatorStep
      /\ UNCHANGED <<ctrlVars, thrVars, vehVars, timers, gfVars, sys_running,
                     event_queue, events, n_events, n_commands, sd_landed>>

CommunicatorSpec == CommunicatorInit /\ [][CommunicatorNext]_vars

\* ================================================================ claims

\* C1: at no instant are a call of the monitor thread and a call of the
\* control loop that mutate the vehicle in progress together.
C1_CallsSerialized ==
    ~(InCall("ctl") /\ \E m \in Monitors : InCall(m))

\* the status changes of the table: connect, takeoff, land, return_to_home,
\* the two the monitor observes, and any -> Disconnected, any -> Error
TableTransitions ==
    {<<"DISCONNECTED", "CONNECTED">>, <<"CONNECTED", "FLYING">>,
     <<"FLYING", "LANDING">>, <<"RETURNING", "LANDING">>,
     <<"FLYING", "RETURNING">>, <<"LANDING", "CONNECTED">>,
     <<"RETURNING", "CONNECTED">>}
    \cup {<<s, "DISCONNECTED">> : s \in DroneStatus}
    \cup {<<s, "ERROR">> : s \in DroneStatus}

\* C2: every change of status is one of the changes of the table.
C2_OnlyTableTransitions ==
    [][status' # status => <<status, status'>> \in TableTransitions]_vars

\* C3: move_to_coordinates entered while status is not FLYING returns
\* failure, does not go on to the goto, and leaves status as it is.
C3_MoveRejectedUnlessFlying ==
    [][\A t \in Threads :
         (pc[t] = "mv_enter" /\ pc'[t] # "mv_enter" /\ status # "FLYING")
           => (Failed(rv'[t]) /\ pc'[t] # "mv_goto" /\ status' = status)]_vars

\* C4: shutdown() never closes the link while status is FLYING or RETURNING
\* unless it has called land() before.
C4_LandBeforeClose ==
    \A t \in Callers :
      (pc[t] = "dc_closing" /\ Head(ret[t]) = "sd_stop" /\ is_flying)
        => sd_landed[t]

\* the entry labels of the vehicle operations events and commands map to
VehicleOperations == {"mv_enter", "rt_enter", "ld_enter", "tk_enter", "ms_enter"}

\* C5: the control loop dispatches an event or a command to a vehicle
\* operation only while shutdown has not begun (DroneSystem.running holds).
C5_NoDispatchAfterShutdown ==
    [][(pc["ctl"] \in {"ctl_events", "ctl_cmds"}
          /\ pc'["ctl"] \in VehicleOperations) => sys_running]_vars

\* C6: the monitor calls return_to_home() only on a tick whose battery
\* reading crossed the critical level: the reading before was not below it.
C6_OneReturnPerCrossing ==
    [][\A m \in Monitors :
         (pc[m] = "mon_battery" /\ pc'[m] = "rt_enter")
           => battery >= critical_battery_level]_vars

\* C8: while status is DISCONNECTED only a method called on the controller
\* changes it: no monitor tick and no landing timer does.
C8_DisconnectedUntilConnect ==
    [][(status = "DISCONNECTED" /\ status' # "DISCONNECTED")
         => \E t \in Callers : pc'[t] # pc[t]]_vars

\* C9: status leaves ERROR only for DISCONNECTED (by disconnect()).
C9_ErrorUntilDisconnect ==
    [][(status = "ERROR" /\ status' # "ERROR")
         => status' = "DISCONNECTED"]_vars

\* C7: an exception in a monitor tick does not end the monitor: the thread
\* stops only at its loop condition, when running is false or the handle is
\* gone, and from the backoff it reaches the next tick unless the
\* connection has ended.
C7_MonitorSurvivesExceptions ==
    /\ [][\A m \in Monitors :
            (pc[m] # "stopped" /\ pc'[m] = "stopped")
              => (pc[m] = "mon_check" /\ ~(running /\ vehicle))]_vars
    /\ \A m \in Monitors :
         (pc[m] = "mon_backoff") ~> (pc[m] = "mon_mode" \/ ~(running /\ vehicle))

\* C7 witness: a monitor sleeps the backoff after an exception while the
\* connection lasts.
C7_Witness ==
    \E m \in Monitors : pc[m] = "mon_backoff" /\ running /\ vehicle

\* C10: when the wait for arming ends with the vehicle not armed, takeoff
\* returns failure at once and the step leaves status as it was.
C10_ArmTimeoutKeepsStatus ==
    [][\A t \in Threads :
         (pc[t] = "tk_arm_wait" /\ pc'[t] # "tk_arm_wait" /\ ~armed')
           => (Failed(rv'[t]) /\ pc'[t] = Head(ret[t]) /\ status' = status)]_vars

\* C10 witness: takeoff has returned from the arming timeout and status is
\* CONNECTED.
C10_Witness ==
    /\ pc["main"] = "client" /\ rv["main"] = "ArmTimeout"
    /\ status = "CONNECTED" /\ ~armed

\* C11: the altitude of a simple_takeoff in progress is max_altitude when
\* takeoff was called with an altitude above it, and the altitude takeoff
\* was called with otherwise.
C11_TakeoffAltitudeClamped ==
    \A t \in Callers :
      (pc[t] = "tk_takeoff" /\ arg[t].altitude # None)
        => target[t].altitude =
             Some(IF arg[t].altitude[1] > max_altitude THEN max_altitude
                  ELSE arg[t].altitude[1])

\* C12: a step of land() changes status to LANDING only from FLYING or
\* RETURNING, and land() entered in any other status returns failure, does
\* not go on to the mode change, and leaves status as it is.
C12_LandOnlyWhenFlying ==
    [][\A t \in Threads :
         /\ (pc[t] \in {"ld_enter", "ld_mode"} /\ pc'[t] # pc[t]
               /\ status' = "LANDING" /\ status # "LANDING")
              => status \in {"FLYING", "RETURNING"}
         /\ (pc[t] = "ld_enter" /\ pc'[t] # "ld_enter"
               /\ status \notin {"FLYING", "RETURNING"})
              => (Failed(rv'[t]) /\ pc'[t] # "ld_mode" /\ status' = status)]_vars

\* C13: with at least one boundary, the point get_nearest_safe_point
\* returned is one is_point_inside accepts.
C13_SafePointInside ==
    (gf_call.op = "get_nearest_safe_point" /\ boundaries # <<>>)
      => is_point_inside(boundaries, gf_result.number[1], None)

\* the elements of a sequence
Range(seq) == {seq[i] : i \in 1..Len(seq)}

\* C14: asked without an altitude, is_point_inside answers true exactly when
\* some boundary contains the point, whatever the order the boundaries were
\* added in: a point inside one boundary and outside another is inside.
C14_UnionSemantics ==
    (gf_call.op = "is_point_inside" /\ gf_call.altitude = None)
      => /\ gf_result.truth = (\E i \in 1..Len(boundaries) :
                                  contains(boundaries[i], gf_call.latitude))
         /\ \A other \in [1..Len(boundaries) -> Range(boundaries)] :
              Range(other) = Range(boundaries)
                => is_point_inside(other, gf_call.latitude, None) = gf_result.truth

\* C14 witness: two boundaries, the point inside one of them only, and
\* is_point_inside has answered true.
C14_Witness ==
    /\ gf_call.op = "is_point_inside" /\ gf_call.altitude = None
    /\ Len(boundaries) = 2
    /\ \E i, j \in 1..2 :
         /\ contains(boundaries[i], gf_call.latitude)
         /\ ~contains(boundaries[j], gf_call.latitude)
    /\ gf_result.truth

\* C15: asked with an altitude, is_point_inside answers false when the
\* altitude is below min_altitude or above max_altitude, whatever boundary
\* contains the point, and otherwise answers as it does without an altitude:
\* true exactly when some boundary contains the point.
C15_AltitudeFailsClosed ==
    (gf_call.op = "is_point_inside" /\ gf_call.altitude # None)
      => IF \/ gf_call.altitude[1] < geofence_min_altitude
            \/ gf_call.altitude[1] > geofence_max_altitude
           THEN ~gf_result.truth
           ELSE gf_result.truth = (\E i \in 1..Len(boundaries) :
                                     contains(boundaries[i], gf_call.latitude))

\* C15 witness: a point that a boundary contains was asked about with an
\* altitude below the minimum, and the answer was false.
C15_Witness ==
    /\ gf_call.op = "is_point_inside" /\ gf_call.altitude # None
    /\ gf_call.altitude[1] < geofence_min_altitude
    /\ \E i \in 1..Len(boundaries) : contains(boundaries[i], gf_call.latitude)
    /\ ~gf_result.truth

\* C16: with a boundary configured, calculate_breach_distance is 0 for a
\* point is_point_inside accepts (no altitude given); for any other point
\* it is the least distance from the point to a boundary, in metres
\* (111111 per degree), and is greater than 0.
C16_BreachDistance ==
    (gf_call.op = "calculate_breach_distance" /\ boundaries # <<>>)
      => IF is_point_inside(boundaries, gf_call.latitude, None)
           THEN gf_result.number = Some(0)
           ELSE /\ \E i \in 1..Len(boundaries) :
                     gf_result.number[1] * DegreeScale =
                       111111 * distance(gf_call.latitude,
                                         nearest_point(boundaries[i], gf_call.latitude))
                /\ \A i \in 1..Len(boundaries) :
                     gf_result.number[1] * DegreeScale <=
                       111111 * distance(gf_call.latitude,
                                         nearest_point(boundaries[i], gf_call.latitude))
                /\ gf_result.number[1] > 0

\* C17: the target of a simple_goto in progress is a point is_point_inside
\* accepts: the requested point when that is inside the geofence, and
\* get_nearest_safe_point of it when it is not.
C17_GotoTargetInside ==
    \A t \in Threads :
      pc[t] = "mv_goto"
        => LET requested == arg[t].location.latitude[1] IN
           /\ is_point_inside(boundaries, target[t].latitude[1], None)
           /\ target[t].latitude =
                Some(IF is_point_inside(boundaries, requested, None)
                       THEN requested
                       ELSE get_nearest_safe_point(boundaries, requested))

\* C18: load_mission entered with a mission id that is not in the mission
\* table returns failure, does not go on to the upload, and leaves
\* current_mission, current_waypoint_index and status as they are.
C18_UnknownMissionRejected ==
    [][\A t \in Threads :
         (pc[t] = "ms_enter" /\ pc'[t] # "ms_enter"
            /\ arg[t].mission_id \notin MissionTable)
           => /\ Failed(rv'[t])
              /\ pc'[t] # "ms_upload"
              /\ UNCHANGED <<current_mission, current_waypoint_index, status>>]_vars

\* C19: when load_mission returns success it has uploaded one command per
\* waypoint of the mission definition, in the order of the definition:
\* command i has the latitude of waypoint i when that is inside the
\* geofence, and get_nearest_safe_point of it when it is not.
C19_MissionUploadedInOrder ==
    [][\A t \in Threads :
         (pc[t] \in {"ms_enter", "ms_upload"}
            /\ pc'[t] \notin {"ms_enter", "ms_upload"} /\ rv'[t] = "True")
           => /\ pc[t] = "ms_upload"
              /\ LET waypoints == missions[arg[t].mission_id]
                     uploaded == target[t].commands
                 IN
                 /\ Len(uploaded) = Len(waypoints)
                 /\ \A i \in 1..Len(waypoints) :
                      uploaded[i].latitude =
                        IF is_point_inside(boundaries, waypoints[i].latitude, None)
                          THEN waypoints[i].latitude
                          ELSE get_nearest_safe_point(boundaries,
                                                      waypoints[i].latitude)]_vars

\* C20: the control loop handles a drained event of kind fire, break_in,
\* suspicious or threat by one call of move_to_coordinates with the
\* location of the event and the altitude configured for the kind, and an
\* event of another kind by no call.
C20_EventDispatch ==
    [][(pc["ctl"] = "ctl_events" /\ events # <<>> /\ pc'["ctl"] # "ctl_events")
         \/ (pc["ctl"] = "ctl_events" /\ events' # events)
       => LET event == Head(events)
              altitude ==
                CASE event.type = "fire" -> fire_inspection_altitude
                  [] event.type = "break_in" -> tracking_altitude
                  [] event.type = "suspicious" -> investigation_altitude
                  [] event.type = "threat" -> threat_observation_altitude
                  [] OTHER -> 0
          IN  /\ events' = Tail(events)
              /\ IF event.type \in {"fire", "break_in", "suspicious", "threat"}
                   THEN /\ pc'["ctl"] = "mv_enter"
                        /\ ret'["ctl"] = <<"ctl_events">> \o ret["ctl"]
                        /\ arg'["ctl"].location = event.location
                        /\ arg'["ctl"].altitude = Some(altitude)
                   ELSE /\ pc'["ctl"] = "ctl_events"
                        /\ ret'["ctl"] = ret["ctl"]]_vars

\* C20 witness: the control loop has called move_to_coordinates for a
\* break_in event, with the tracking altitude.
C20_Witness ==
    /\ pc["ctl"] = "mv_enter" /\ ret["ctl"] = <<"ctl_events">>
    /\ arg["ctl"].altitude = Some(tracking_altitude)
    /\ n_events > 0

\* the items a queue holds for the control loop: those it has drained and
\* not yet handled, then those still on the queue
PendingEvents == events \o event_queue
PendingCommands == commands \o command_queue

KnownCommandKinds == {"move", "takeoff", "land", "return", "mission", "shutdown"}

\* the control loop takes a step from the handling of a drained command
HandlesCommand ==
    /\ pc["ctl"] = "ctl_cmds" /\ commands # <<>>
    /\ <<pc["ctl"], ret["ctl"], rv["ctl"], commands>>'
         # <<pc["ctl"], ret["ctl"], rv["ctl"], commands>>

\* C22: the handling of a command whose type is none of the six known ones
\* calls no vehicle operation and no shutdown, leaves the status, the
\* vehicle and the running flag as they are, and the control loop goes on
\* to the next command.
C22_UnknownCommandIgnored ==
    [][(HandlesCommand /\ Head(commands).type \notin KnownCommandKinds)
         => /\ pc'["ctl"] = "ctl_cmds" /\ ret'["ctl"] = ret["ctl"]
            /\ commands' = Tail(commands)
            /\ UNCHANGED <<ctrlVars, vehVars, timers, sys_running>>]_vars

\* C22 witness: of two commands drained together the control loop has
\* handled the first without a call and with the system still running (no
\* method returned to it and no shutdown ran), and holds the second.
C22_Witness ==
    /\ pc["ctl"] = "ctl_cmds" /\ rv["ctl"] = "none" /\ sys_running
    /\ n_commands = 2 /\ command_queue = <<>> /\ Len(commands) = 1

\* C23: the handling of a command of a known type that lacks a field the
\* type requires (a mission command without mission_id) does not end the
\* control loop and starts no shutdown: the running flag stays set, no land
\* and no disconnect is called, and the control loop goes on to the next
\* command.
C23_MalformedCommandRejected ==
    [][(HandlesCommand /\ Malformed(Head(commands)))
         => /\ pc'["ctl"] = "ctl_cmds" /\ ret'["ctl"] = ret["ctl"]
            /\ commands' = Tail(commands)
            /\ UNCHANGED <<ctrlVars, vehVars, timers, sys_running>>]_vars

\* a message has been received and it is a JSON object with a 'type'
ReceivesTyped ==
    /\ n_messages' = n_messages + 1
    /\ comm_call'.json /\ comm_call'.data.type # "none"

\* C24 as stated: a message with a 'type', by whatever transport it came,
\* is put on the command queue once and answered with the acknowledgment
\* {type: ack, command: its type}.
C24_TypedMessageAcknowledged ==
    [][ReceivesTyped
         => /\ command_queue' = Append(command_queue, comm_call'.data)
            /\ replies' = Append(replies, [type |-> "ack",
                                           command |-> comm_call'.data.type,
                                           status |-> "received"])]_vars

\* C24 amended: every message with a 'type' is put on the command queue
\* once, whatever the type is; received on the WebSocket it is answered
\* with the acknowledgment {type: ack, command: its type}, and posted to
\* the REST route it is answered with status ok.
C24_TypedMessageQueuedAndAnswered ==
    [][ReceivesTyped
         => /\ command_queue' = Append(command_queue, comm_call'.data)
            /\ replies' =
                 Append(replies,
                        IF comm_call'.transport = "websocket"
                          THEN [type |-> "ack", command |-> comm_call'.data.type,
                                status |-> "received"]
                          ELSE [type |-> "none", command |-> "none",
                                status |-> "ok"])]_vars

\* C24 witness: a WebSocket message of a type the control loop does not
\* know is the newest on the command queue and was acknowledged.
C24_Witness ==
    /\ comm_call.transport = "websocket" /\ comm_call.json
    /\ comm_call.data.type = "other"
    /\ command_queue # <<>>
    /\ command_queue[Len(command_queue)] = comm_call.data
    /\ replies # <<>>
    /\ replies[Len(replies)].type = "ack"
    /\ replies[Len(replies)].command = "other"

\* thread t returns from the method whose entry label it is at
ReturnsFrom(t, entry) == pc[t] = entry /\ pc'[t] = Head(ret[t])

\* C25: in simulation mode each call of the nominal lifecycle returns True
\* at once and sets the status of its step: connect() from DISCONNECTED
\* gives CONNECTED, takeoff() from CONNECTED gives FLYING,
\* move_to_coordinates() while FLYING leaves FLYING, return_to_home() from
\* FLYING gives RETURNING, land() from RETURNING gives LANDING, and
\* disconnect() from LANDING runs to its end, which sets DISCONNECTED.
C25_SimulatedLifecycle ==
    [][simulation_mode =>
         \A t \in Callers :
           /\ (pc[t] = "cn_enter" /\ pc'[t] # pc[t] /\ status = "DISCONNECTED")
                => (ReturnsFrom(t, "cn_enter") /\ rv'[t] = "True"
                      /\ status' = "CONNECTED")
           /\ (pc[t] = "tk_enter" /\ pc'[t] # pc[t] /\ status = "CONNECTED")
                => (ReturnsFrom(t, "tk_enter") /\ rv'[t] = "True"
                      /\ status' = "FLYING")
           /\ (pc[t] = "mv_enter" /\ pc'[t] # pc[t] /\ status = "FLYING")
                => (ReturnsFrom(t, "mv_enter") /\ rv'[t] = "True"
                      /\ status' = "FLYING")
           /\ (pc[t] = "rt_enter" /\ pc'[t] # pc[t] /\ status = "FLYING")
                => (ReturnsFrom(t, "rt_enter") /\ rv'[t] = "True"
                      /\ status' = "RETURNING")
           /\ (pc[t] = "ld_enter" /\ pc'[t] # pc[t] /\ status = "RETURNING")
                => (ReturnsFrom(t, "ld_enter") /\ rv'[t] = "True"
                      /\ status' = "LANDING")
           /\ (pc[t] = "dc_enter" /\ pc'[t] # pc[t] /\ status = "LANDING")
                => pc'[t] = "dc_join"
           /\ (pc[t] = "dc_join" /\ pc'[t] # pc[t]) => pc'[t] = "dc_done"
           /\ (pc[t] = "dc_done" /\ pc'[t] # pc[t])
                => (ReturnsFrom(t, "dc_done") /\ status' = "DISCONNECTED")]_vars

\* C25 witness: the simulated controller is DISCONNECTED again after
\* disconnect() returned, with the timers that return_to_home() and land()
\* started still pending.
C25_Witness ==
    /\ simulation_mode /\ status = "DISCONNECTED" /\ timers = 2
    /\ pc["main"] = "client" /\ rv["main"] = "none"

\* the geofence step of monitor m calls move_to_coordinates
CorrectiveMove(m) == MonitorGeofence(m) /\ pc'[m] = "mv_enter"

\* the geofence step of monitor m ends the tick without a call
NoCorrectiveMove(m) == MonitorGeofence(m) /\ pc'[m] = "mon_check"

\* C26: the geofence step of a monitor tick calls move_to_coordinates only
\* when status is FLYING at that step, and then with
\* get_nearest_safe_point of a position is_point_inside rejects and with no
\* altitude; in any other status (RETURNING after the battery step called
\* return_to_home() included) the step ends the tick without a call.  While
\* FLYING the call is made for a position outside the geofence and left out
\* for one inside it.
C26_CorrectiveMoveOnlyWhileFlying ==
    /\ [][\A m \in Monitors :
            (pc[m] = "mon_geofence" /\ pc'[m] # pc[m])
              => /\ status # "FLYING" => pc'[m] = "mon_check"
                 /\ pc'[m] = "mv_enter"
                      => /\ status = "FLYING"
                         /\ ret'[m] = <<"mon_check">> \o ret[m]
                         /\ arg'[m].altitude = None
                         /\ \E lat \in VehiclePositions :
                              /\ ~is_point_inside(boundaries, lat, None)
                              /\ arg'[m].location.latitude =
                                   Some(get_nearest_safe_point(boundaries, lat))]_vars
    /\ [](\A m \in Monitors :
            (pc[m] = "mon_geofence" /\ status = "FLYING" /\ vehicle)
              => /\ (\E lat \in VehiclePositions :
                       ~is_point_inside(boundaries, lat, None))
                      => ENABLED CorrectiveMove(m)
                 /\ (\E lat \in VehiclePositions :
                       is_point_inside(boundaries, lat, None))
                      => ENABLED NoCorrectiveMove(m))

\* C26 witness: a monitor has called move_to_coordinates from its geofence
\* step while status is FLYING.
C26_Witness ==
    \E m \in Monitors :
      /\ pc[m] = "mv_enter" /\ ret[m] = <<"mon_check">> /\ status = "FLYING"

\* monitor m completes the mode step of its tick
ReconcilesMode(m) == pc[m] = "mon_mode" /\ pc'[m] = "mon_landed"

\* C27: the mode step of a monitor tick sets status to LANDING when the link
\* reports LAND while status is FLYING, and to RETURNING when it reports RTL
\* while status is FLYING; it sets LANDING only from FLYING or RETURNING
\* and RETURNING only from FLYING, the changes the table allows.
C27_ModeReconciledFromFlying ==
    [][\A m \in Monitors :
         ReconcilesMode(m)
           => /\ (status = "FLYING" /\ mode = "LAND") => status' = "LANDING"
              /\ (status = "FLYING" /\ mode = "RTL") => status' = "RETURNING"
              /\ (status' = "LANDING" /\ status # "LANDING")
                   => status \in {"FLYING", "RETURNING"}
              /\ (status' = "RETURNING" /\ status # "RETURNING")
                   => status = "FLYING"]_vars

\* C28: the landed step of a monitor tick sets status to CONNECTED when
\* status is LANDING and the vehicle is disarmed, and no step of a monitor
\* takes status away from CONNECTED while the vehicle stays disarmed in
\* LAND mode and no caller is inside a method of the controller.
C28_LandedStaysConnected ==
    [][\A m \in Monitors :
         /\ (pc[m] = "mon_landed" /\ pc'[m] = "mon_battery"
               /\ status = "LANDING" /\ ~armed)
              => status' = "CONNECTED"
         /\ (pc'[m] # pc[m] /\ status = "CONNECTED" /\ mode = "LAND" /\ ~armed
               /\ \A t \in Callers : pc[t] \in {"client", "off"})
              => status' = "CONNECTED"]_vars

\* C29: with a real vehicle, once status is RETURNING and the vehicle has
\* landed and disarmed, the monitor, ticking without an exception while the
\* connection lasts, brings status away from RETURNING.
C29_ReturnCompletes ==
    \A m \in Monitors :
      (~simulation_mode /\ status = "RETURNING" /\ ~armed /\ monitoring_thread = m)
        ~> \/ status # "RETURNING"
           \/ pc[m] \in {"mon_backoff", "stopped"}
           \/ ~(running /\ vehicle)

\* C30: return_to_home() called while status is already RETURNING is a no-op:
\* it sends no mode change to the vehicle, starts no further
\* landing-complete timer and leaves status RETURNING.
C30_ReturnToHomeIdempotent ==
    [][\A t \in Callers :
         (pc[t] = "rt_enter" /\ pc'[t] # pc[t] /\ status = "RETURNING")
           => /\ status' = "RETURNING"
              /\ mode' = mode
              /\ timers' = timers
              /\ pc'[t] # "rt_mode"]_vars

\* C31: when load_mission(id) returns True, current_mission is id and
\* current_waypoint_index is 0, whatever they were before.
C31_LoadReplacesMission ==
    [][\A t \in Threads :
         (pc[t] \in {"ms_enter", "ms_upload"} /\ pc'[t] # pc[t] /\ rv'[t] = "True")
           => /\ current_mission' = arg[t].mission_id
              /\ current_waypoint_index' = 0]_vars

\* C32: when a landing completes (status goes from LANDING or RETURNING to
\* CONNECTED) and when disconnect() sets status DISCONNECTED,
\* current_mission is empty afterwards.
C32_MissionClearedAtFlightEnd ==
    [][(/\ status' # status
        /\ \/ status' = "DISCONNECTED"
           \/ status \in {"LANDING", "RETURNING"} /\ status' = "CONNECTED")
         => current_mission' = "none"]_vars

\* C33: a connect() called after a connect() that failed (status ERROR)
\* makes a new connection attempt; it does not return before the link is
\* tried.
C33_FailedConnectRetried ==
    [][\A t \in Callers :
         (pc[t] = "cn_enter" /\ pc'[t] # pc[t] /\ status = "ERROR")
           => pc'[t] = "cn_link"]_vars

\* the distance from a latitude to boundary i, and the first boundary at the
\* least distance
BoundaryDistance(i, latitude) ==
    distance(latitude, nearest_point(boundaries[i], latitude))

FirstNearest(latitude) ==
    CHOOSE i \in 1..Len(boundaries) :
      /\ \A j \in 1..Len(boundaries) :
           BoundaryDistance(i, latitude) <= BoundaryDistance(j, latitude)
      /\ \A j \in 1..(i - 1) :
           BoundaryDistance(j, latitude) > BoundaryDistance(i, latitude)

\* geofence_manager.py lines 235-250: the safe point made from the nearest
\* point of a boundary, moved buffer_distance towards the centre of a circle
SafePointOf(boundary, latitude) ==
    LET nearest_safe_point == nearest_point(boundary, latitude)
        buffer_degrees == meters_to_degrees(buffer_distance)
    IN  IF /\ boundary.type = "circle"
           /\ distance(nearest_safe_point, boundary.center) > buffer_degrees
          THEN IF boundary.center > nearest_safe_point
                 THEN nearest_safe_point + buffer_degrees
                 ELSE nearest_safe_point - buffer_degrees
          ELSE nearest_safe_point

\* C34: for a point that no boundary contains, get_nearest_safe_point gives
\* the safe point of the boundary at the least distance from the point, the
\* one added first when two are at the same distance, and
\* calculate_breach_distance gives that least distance in metres.
C34_NearestBoundaryFirstWins ==
    (boundaries # <<>> /\ ~InsideAny(boundaries, gf_call.latitude))
      => /\ gf_call.op = "get_nearest_safe_point"
              => gf_result.number =
                   Some(SafePointOf(boundaries[FirstNearest(gf_call.latitude)],
                                    gf_call.latitude))
         /\ gf_call.op = "calculate_breach_distance"
              => gf_result.number =
                   Some((BoundaryDistance(FirstNearest(gf_call.latitude),
                                          gf_call.latitude) * 111111)
                          \div DegreeScale)

\* C34 witness: two boundaries at the same distance from the point, each
\* with a safe point of its own, and get_nearest_safe_point has answered.
C34_Witness ==
    /\ gf_call.op = "get_nearest_safe_point"
    /\ Len(boundaries) = 2
    /\ ~InsideAny(boundaries, gf_call.latitude)
    /\ BoundaryDistance(1, gf_call.latitude) = BoundaryDistance(2, gf_call.latitude)
    /\ SafePointOf(boundaries[1], gf_call.latitude)
         # SafePointOf(boundaries[2], gf_call.latitude)
    /\ gf_result.number = Some(SafePointOf(boundaries[1], gf_call.latitude))

\* C35: no two boundaries of the geofence have the same name.
C35_BoundaryNamesUnique ==
    \A i, j \in 1..Len(boundaries) :
      i # j => boundaries[i].name # boundaries[j].name

\* C36: in simulation mode a landing-complete timer that fires while status
\* is FLYING leaves it FLYING: a timer of an earlier land() or
\* return_to_home() does not end a later flight.
C36_StaleTimerKeepsFlying ==
    [][(simulation_mode /\ status = "FLYING" /\ timers' < timers)
         => status' = "FLYING"]_vars

\* C37: a simple_goto of the monitor's geofence correction completes only
\* while status is still FLYING: no land() or return_to_home() of another
\* thread has changed the mode and the status between the status check of
\* move_to_coordinates and its goto.
C37_NoGotoAfterModeChange ==
    [][\A m \in Monitors :
         (pc[m] = "mv_goto" /\ pc'[m] # "mv_goto" /\ rv'[m] = "True")
           => status = "FLYING"]_vars

\* labels of takeoff() after the arming
TakeoffClimb == {"tk_takeoff", "tk_alt_wait", "tk_alt_sleep"}

\* C38: a takeoff() that has armed the vehicle returns: the wait for the
\* target altitude ends.
C38_TakeoffReturns ==
    \A t \in Callers :
      (pc[t] \in TakeoffClimb) ~> (pc[t] \notin TakeoffClimb)

\* a monitor thread that has passed its loop condition and is in a tick
InTick(m) == pc[m] \notin {"idle", "stopped", "mon_check", "mon_backoff"}

\* C39: at no time are two monitor threads of a controller in a tick: the
\* monitor of an earlier connection has stopped, and stays stopped, when a
\* later connect() has started another.
C39_OneMonitorTicks ==
    \A m, n \in MonitorSlots : (InTick(m) /\ InTick(n)) => m = n

\* C40: DroneController.status is never ARMED.
C40_StatusNeverArmed ==
    status # "ARMED"

\* C40 witness: takeoff() has armed the vehicle and sent simple_takeoff, and
\* status is still CONNECTED.
C40_Witness ==
    /\ \E t \in Callers : pc[t] = "tk_alt_wait"
    /\ armed
    /\ status = "CONNECTED"

====
